---- MODULE Spec2Model ----
(***************************************************************************)
(* A model of the academic-paper generator: the conversation-stage state   *)
(* machine (paper_generator.py), the multi-role collaborative generation   *)
(* loop and the role assignment (collaboration_engine.py), the backend     *)
(* registry (ai_service.py) and the session record they work on            *)
(* (conversation_manager.py).                                              *)
(*                                                                         *)
(* Texts are strings.  A backend reply is an opaque text; the n-th backend *)
(* call of a generation run answers Reply(n), so that the contents of      *)
(* different calls can be told apart.  A backend call either returns a     *)
(* text or raises (AIServiceManager.chat raises when no service is         *)
(* registered or when the service's HTTP call fails).                      *)
(***************************************************************************)
EXTENDS Integers, Sequences, FiniteSets, TLC

VARIABLES
    config,     \* paper_generation section of config.yaml: min_rounds, max_rounds
    session,    \* the ConversationSession record the calls are addressed to
    call,       \* the process_user_input call in progress: its position and locals
    response,   \* what the last finished call returned
    failures,   \* backend calls that have raised so far
    gen,        \* the last collaborative_generation run: arguments and result
    engine,     \* the backend registry and the collaboration engine built on it
    op,         \* the operation just called outside a user turn, and its outcome
    store,      \* ConversationManager's sessions by identifier, where several exist
    now         \* the wall clock, in instants (TicksPerSecond of them to a second)

vars == <<config, session, call, response, failures, gen, engine, op, store, now>>

(***************************************************************************)
(* Bounds of the model.                                                    *)
(***************************************************************************)
\* user turns sent to the session
MaxTurns == 5
\* backend calls that raise in one behaviour
MaxFailures == 1
\* required fields the extractor may return on their own (in required order)
MaxSingleFields == 1
\* largest iteration count given to collaborative_generation
MaxIterations == 3
\* most backends registered
MaxServices == 5
\* sections (the first ones of the section list) regenerate_section is asked for
MaxRegenSections == 1
\* tokens in a backend reply to the extraction prompt
MaxTextLen == 6
\* instants the wall clock may advance by
MaxClock == 3
\* exports of one paper_content mapping that are compared
MaxExports == 2
\* sessions the store may hold at once
MaxSessions == 2
\* messages added to one stored session
MaxStoreMessages == 1

(***************************************************************************)
(* Program constants.                                                      *)
(***************************************************************************)
\* paper_config.get("max_rounds", 15)
DefaultMaxRounds == 15
\* paper_config.get("min_rounds", 5)
DefaultMinRounds == 5
\* collaborative_generation(..., iterations: int = 2)
DefaultIterations == 2

\* AcademicPaperGenerator.stage_flow
stage_flow ==
    << "initial", "research_background", "methodology", "results",
       "discussion", "literature_review", "generating" >>

\* PaperGenerationStage: the eight stage enumerants in their fixed order
PaperGenerationStage == stage_flow \o << "completed" >>

\* the section list of _generate_full_paper
sections ==
    << "abstract", "introduction", "literature_review", "methodology",
       "results", "discussion", "conclusion" >>

\* required_fields of _check_information_completeness
\* (yan jiu zhu ti, bei jing, mu biao, fang fa, shu ju lai yuan, yan jiu fa xian)
required_fields ==
    << "research_topic", "research_background", "research_objective",
       "research_method", "data_source", "research_findings" >>

\* the catch-all key of _extract_information ("yong hu bu chong xin xi")
UserSupplement == "user_supplementary_info"

Range(s) == { s[i] : i \in DOMAIN s }

EmptyMap == [ k \in {} |-> "" ]

\* dict.update replaced by an assignment of g
DictReplace(f, g) == g

\* dict.update: the keys of g are added to f, g's value winning on a collision
DictUpdate(f, g) ==
    [ k \in (DOMAIN f) \cup (DOMAIN g) |-> IF k \in DOMAIN g THEN g[k] ELSE f[k] ]

\* Python truthiness of a collected value: the empty text (and null) is falsy
Truthy(v) == v # ""

(***************************************************************************)
(* ai_service.py and collaboration_engine.py: the backend registry and the *)
(* assignment of the four roles to the registered backends.                *)
(***************************************************************************)
\* ModelRole, in the order _assign_services_to_roles lists the roles
ModelRoles ==
    << "information_collector", "content_generator", "quality_reviewer",
       "structure_optimizer" >>

\* Python's None where a name is expected
None == "None"

NoServiceError == "no_ai_service_available"
TransportError == "service_call_failed"

\* the position of a role in ModelRoles, counted from 0 as enumerate does
RoleIndex(role) == (CHOOSE i \in DOMAIN ModelRoles : ModelRoles[i] = role) - 1

\* _load_config and role_config: the roles section of config.yaml, or the
\* empty dict when the file cannot be loaded
role_config(config_present) ==
    IF config_present THEN [ r \in Range(ModelRoles) |-> "configured" ] ELSE EmptyMap

\* _assign_services_to_roles with the role index taken from 1
assign_services_shifted(services) ==
    IF Len(services) = 0 THEN EmptyMap
    ELSE [ r \in Range(ModelRoles) |->
             services[((RoleIndex(r) + 1) % Len(services)) + 1] ]

\* _assign_services_to_roles: services is get_service_names()
assign_services_to_roles(services) ==
    IF Len(services) = 0 THEN EmptyMap
    ELSE IF Len(services) = 1
         THEN [ r \in Range(ModelRoles) |-> services[1] ]
         ELSE [ r \in Range(ModelRoles) |->
                  services[(RoleIndex(r) % Len(services)) + 1] ]

\* __init__ leaving the mapping empty when the roles configuration is absent
EngineMappingNeedsConfig(services, config_present) ==
    [ constructed |-> TRUE, services |-> services, config_present |-> config_present,
      role_config |-> role_config(config_present),
      role_service_mapping |->
          IF config_present THEN assign_services_to_roles(services) ELSE EmptyMap ]

\* MultiModelCollaborationEngine.__init__
MultiModelCollaborationEngine(services, config_present) ==
    [ constructed |-> TRUE, services |-> services, config_present |-> config_present,
      role_config |-> role_config(config_present),
      role_service_mapping |-> assign_services_to_roles(services) ]

\* the registry loaded, the engine not constructed yet
NoEngine(services, config_present) ==
    [ constructed |-> FALSE, services |-> services, config_present |-> config_present,
      role_config |-> EmptyMap, role_service_mapping |-> EmptyMap ]

\* AIServiceManager.get_service: the named service, or the first one when no
\* name is given; None when there is none
get_service(services, service_name) ==
    IF service_name # None
    THEN IF service_name \in Range(services) THEN service_name ELSE None
    ELSE IF Len(services) > 0 THEN services[1] ELSE None

\* AIServiceManager.chat: raises when no service is found, and when the
\* service's own call fails (ok = FALSE)
chat(services, service_name, ok) ==
    LET service == get_service(services, service_name)
    IN  IF service = None
        THEN [ outcome |-> "raised", error |-> NoServiceError, service |-> None ]
        ELSE IF ok
             THEN [ outcome |-> "returned", error |-> "", service |-> service ]
             ELSE [ outcome |-> "raised", error |-> TransportError, service |-> service ]

\* role_service_mapping.get(role)
mapped_service(e, role) ==
    IF role \in DOMAIN e.role_service_mapping THEN e.role_service_mapping[role] ELSE None

\* the service_manager.chat call a role method makes
dispatch(e, role, ok) == chat(e.services, mapped_service(e, role), ok)

\* the places a backend call is made from, each with the role whose backend
\* it names in service_name; the extractor's call names none
CallSites ==
    [ collect_information |-> "information_collector",
      generate_content |-> "content_generator",
      review_quality |-> "quality_reviewer",
      optimize_structure |-> "structure_optimizer",
      improved_generation |-> "content_generator",
      extract_information |-> None ]

\* every call going to the default backend of the registry
call_from_unnamed(e, site, ok) == chat(e.services, None, ok)

\* the service_manager.chat call made from a place
call_from(e, site, ok) ==
    IF CallSites[site] = None
    THEN chat(e.services, None, ok)
    ELSE dispatch(e, CallSites[site], ok)

\* no backend is registered: every chat call raises
NoBackend == Len(engine.services) = 0

(***************************************************************************)
(* collaboration_engine.py: the role calls and the generation loop.        *)
(* outs[n] says whether the n-th backend call of the run returns (TRUE)    *)
(* or raises (FALSE).                                                      *)
(***************************************************************************)
Reply(n) == "reply_" \o ToString(n)

GenFailedText == "content_generation_failed"
ReviewFailedText == "review_failed"
OptimizeFailedText == "structure_optimization_failed"
CollectFailedText == "information_collection_failed"
ChatError == "chat_raised"

\* generate_content: the backend error is caught and returned as the text
generate_content(n, outs) == IF outs[n] THEN Reply(n) ELSE GenFailedText

\* review_quality: the backend error is caught and returned in the dict
review_quality(n, outs) ==
    IF outs[n] THEN [ review |-> Reply(n), status |-> "success" ]
               ELSE [ review |-> ReviewFailedText, status |-> "error" ]

\* optimize_structure: the backend error is caught and returned as the text
optimize_structure(n, outs) == IF outs[n] THEN Reply(n) ELSE OptimizeFailedText

\* collect_information answering nothing when the backend call raises
collect_information_silent(ok) == IF ok THEN "collector_reply" ELSE ""

\* collect_information: the backend error is caught and returned as the text
collect_information(ok) == IF ok THEN "collector_reply" ELSE CollectFailedText

Entry(i, type, content) == [ iteration |-> i, type |-> type, content |-> content ]

RoleCall(role, n, input, outs) ==
    [ role |-> role, n |-> n, input |-> input, ok |-> outs[n] ]

\* the refinement loop of collaborative_generation from iteration i on; r is
\* the run so far (the result dict, current_content and the calls issued)
RECURSIVE RefinementLoop(_, _, _, _)

\* the refinement loop handing the optimizer the review instead of the content
RefinementLoopChained(i, iterations, r, outs) ==
    IF i > iterations
    THEN [ r EXCEPT !.final_content = r.current_content ]
    ELSE
      LET n == 3 * i - 1
          review_result == review_quality(n, outs)
          optimized_content == optimize_structure(n + 1, outs)
          reviewed ==
              Append(Append(r.iterations,
                            Entry(i, "quality_review", review_result.review)),
                     Entry(i, "structure_optimization", optimized_content))
          issued ==
              r.calls \o << RoleCall("quality_reviewer", n, r.current_content, outs),
                            RoleCall("structure_optimizer", n + 1,
                                     review_result.review, outs),
                            RoleCall("content_generator", n + 2,
                                     << r.current_content, review_result.review,
                                        optimized_content >>, outs) >>
      IN  IF outs[n + 2]
          THEN RefinementLoop(i + 1, iterations,
                   [ r EXCEPT !.iterations =
                                  Append(reviewed,
                                         Entry(i, "improved_generation", Reply(n + 2))),
                              !.calls = issued,
                              !.current_content = Reply(n + 2) ],
                   outs)
          ELSE [ r EXCEPT !.iterations = reviewed,
                          !.calls = issued,
                          !.status = "error",
                          !.error = ChatError,
                          !.final_content = r.current_content ]

RefinementLoop(i, iterations, r, outs) ==
    IF i > iterations
    THEN [ r EXCEPT !.final_content = r.current_content ]
    ELSE
      LET n == 3 * i - 1
          review_result == review_quality(n, outs)
          optimized_content == optimize_structure(n + 1, outs)
          reviewed ==
              Append(Append(r.iterations,
                            Entry(i, "quality_review", review_result.review)),
                     Entry(i, "structure_optimization", optimized_content))
          issued ==
              r.calls \o << RoleCall("quality_reviewer", n, r.current_content, outs),
                            RoleCall("structure_optimizer", n + 1,
                                     r.current_content, outs),
                            RoleCall("content_generator", n + 2,
                                     << r.current_content, review_result.review,
                                        optimized_content >>, outs) >>
      IN  IF outs[n + 2]
          THEN RefinementLoop(i + 1, iterations,
                   [ r EXCEPT !.iterations =
                                  Append(reviewed,
                                         Entry(i, "improved_generation", Reply(n + 2))),
                              !.calls = issued,
                              !.current_content = Reply(n + 2) ],
                   outs)
          ELSE \* service_manager.chat raised: the except branch
               [ r EXCEPT !.iterations = reviewed,
                          !.calls = issued,
                          !.status = "error",
                          !.error = ChatError,
                          !.final_content = r.current_content ]

\* collaborative_generation issuing the first call again when it failed
collaborative_generation_retry(section, iterations, outs) ==
    LET initial_content == generate_content(1, outs)
        first == RoleCall("content_generator", 1, section, outs)
    IN  RefinementLoop(1, iterations,
            [ section |-> section,
              final_content |-> "",
              iterations |-> << Entry(0, "initial_generation", initial_content) >>,
              status |-> "success",
              error |-> "",
              current_content |-> initial_content,
              calls |-> IF outs[1] THEN << first >> ELSE << first, first >> ],
            outs)

\* collaborative_generation(section, collected_info, iterations)
collaborative_generation(section, iterations, outs) ==
    LET initial_content == generate_content(1, outs)
    IN  RefinementLoop(1, iterations,
            [ section |-> section,
              final_content |-> "",
              iterations |-> << Entry(0, "initial_generation", initial_content) >>,
              status |-> "success",
              error |-> "",
              current_content |-> initial_content,
              calls |-> << RoleCall("content_generator", 1, section, outs) >> ],
            outs)

\* collaborative_generation(section, collected_info) with one iteration
collaborative_generation_once(section, outs) ==
    collaborative_generation(section, 1, outs)

\* collaborative_generation(section, collected_info): the iteration count is
\* the default of the signature
collaborative_generation_default(section, outs) ==
    collaborative_generation(section, DefaultIterations, outs)

\* the backend calls one run of the loop may issue: 1 + 3k
CallsOf(iterations) == 1 .. (1 + 3 * iterations)

\* a run of the loop that has not been made yet: its arguments only
NotRun(section, iterations, outs) ==
    [ ran |-> FALSE, section |-> section, iterations |-> iterations, outs |-> outs,
      result |-> collaborative_generation(section, 0, << TRUE >>) ]

NoRun == NotRun("abstract", 0, << TRUE >>)

(***************************************************************************)
(* conversation_manager.py: the session record.  The context keys are      *)
(* fields of the record; has_paper_content says whether the context holds  *)
(* the paper_content key.                                                  *)
(***************************************************************************)
SessionId == "user_20260101_000000"

\* an identifier no session was ever created under
UnknownId == "nobody_20260101_000000"

SessionIds == { SessionId, UnknownId }

Message(role, content) == [ role |-> role, content |-> content ]

NoSession ==
    [ created |-> FALSE, messages |-> << >>, collected_info |-> EmptyMap,
      current_stage |-> "initial", has_paper_content |-> FALSE,
      paper_content |-> EmptyMap, generation_process |-> EmptyMap,
      status |-> "active" ]

\* create_session: an empty transcript, stage initial, status active
create_session == [ NoSession EXCEPT !.created = TRUE ]

\* add_message putting the message in front of the transcript
add_message_front(s, role, content) ==
    [ s EXCEPT !.messages = << Message(role, content) >> \o @ ]

\* add_message: the message is appended to the transcript
add_message(s, role, content) ==
    [ s EXCEPT !.messages = Append(@, Message(role, content)) ]

\* get_messages_for_api returning the whole transcript whatever the limit
get_messages_for_api_unlimited(s, limit) == s.messages

\* get_messages_for_api(session_id, limit): messages[-limit:] when a limit is
\* given (0 stands for none), as role and content
get_messages_for_api(s, limit) ==
    LET n == Len(s.messages)
    IN  IF limit = 0 \/ limit >= n THEN s.messages
        ELSE SubSeq(s.messages, n - limit + 1, n)

\* update_context({"collected_info": ...})
update_collected_info(s, collected_info) ==
    [ s EXCEPT !.collected_info = collected_info ]

\* update_context({"current_stage": ...})
update_current_stage(s, stage) == [ s EXCEPT !.current_stage = stage ]

\* the trace stored under one key shared by all sections
update_generation_process_shared(s, section, trace) ==
    [ s EXCEPT !.generation_process = "generation_process" :> trace ]

\* update_context({"<section>_generation_process": ...})
update_generation_process(s, section, trace) ==
    [ s EXCEPT !.generation_process = DictUpdate(@, section :> trace) ]

\* the stage moved to completed without the paper being stored
update_paper_content_unstored(s, paper_content) ==
    [ s EXCEPT !.current_stage = "completed" ]

\* update_context({"paper_content": ..., "current_stage": "completed"})
update_paper_content(s, paper_content) ==
    [ s EXCEPT !.has_paper_content = TRUE,
               !.paper_content = paper_content,
               !.current_stage = "completed" ]

\* update_session_status writing nothing
update_session_status_skipped(s, status) == s

\* update_session_status
update_session_status(s, status) == [ s EXCEPT !.status = status ]

(***************************************************************************)
(* paper_generator.py: extraction, completeness, the branch of a turn.     *)
(***************************************************************************)
\* A backend reply to the extraction prompt is a text over five tokens: an
\* opening brace, a closing brace, "m" (a well-formed list of members, the
\* ones of obj), "k" (a key and its colon, a value to follow) and "x" (any
\* other characters).
Tokens == { "{", "}", "m", "k", "x" }

\* re.search(r'\{[^}]+\}', response): the leftmost opening brace followed
\* by one or more characters other than a closing brace and then a closing
\* brace; the match runs up to that closing brace.  << >> when none matches.
re_search(text) ==
    LET Closes(p) == { q \in DOMAIN text : q > p /\ text[q] = "}" }
        FirstClose(p) == CHOOSE q \in Closes(p) : \A r \in Closes(p) : q <= r
        Matches(p) == text[p] = "{" /\ Closes(p) # {} /\ FirstClose(p) >= p + 2
        starts == { p \in DOMAIN text : Matches(p) }
    IN  IF starts = {} THEN << >>
        ELSE LET p == CHOOSE a \in starts : \A b \in starts : a <= b
             IN  SubSeq(text, p, FirstClose(p))

\* json.loads of a matched block succeeds exactly on a flat object (a matched
\* block holds no closing brace inside, so no nested object is complete)
json_loads_ok(block) == block = << "{", "m", "}" >>

SingleFields == { required_fields[i] : i \in 1 .. MaxSingleFields }

\* the objects a reply's members may denote
ExtractedObjects ==
    { f :> v : f \in SingleFields, v \in { "", "text" } }
        \cup { [ f \in Range(required_fields) |-> "text" ] }

\* a reply of the extraction call: the call raises, or returns a text
ExtractionReply(returns, text, obj) == [ returns |-> returns, text |-> text, obj |-> obj ]

\* the replies a user turn is tried with: the call raises, the text holds no
\* brace, a block json.loads rejects, or a flat JSON object
ExtractionResponses ==
    { ExtractionReply(FALSE, << >>, EmptyMap), ExtractionReply(TRUE, << "x" >>, EmptyMap),
      ExtractionReply(TRUE, << "{", "x", "}" >>, EmptyMap) }
        \cup { ExtractionReply(TRUE, << "x", "{", "m", "}" >>, o) : o \in ExtractedObjects }

\* _extract_information returning an empty dict where it should fall back
extract_information_no_fallback(user_input, resp) ==
    IF resp.returns /\ json_loads_ok(re_search(resp.text))
    THEN resp.obj
    ELSE EmptyMap

\* _extract_information: the parsed object, or the catch-all fallback
extract_information(user_input, resp) ==
    IF ~resp.returns
    THEN UserSupplement :> user_input          \* except Exception
    ELSE LET json_match == re_search(resp.text)
         IN  IF json_match # << >> /\ json_loads_ok(json_match)
             THEN resp.obj
             ELSE UserSupplement :> user_input

\* _check_information_completeness testing only that the key is present
check_completeness_present_only(collected_info) ==
    LET Missing(f) == f \notin DOMAIN collected_info
        missing_info == SelectSeq(required_fields, Missing)
    IN  [ is_complete |-> Len(missing_info) = 0,
          missing_info |-> missing_info,
          completeness_rate |->
              << Len(required_fields) - Len(missing_info), Len(required_fields) >> ]

\* _check_information_completeness; completeness_rate is the fraction <<n, d>>
check_information_completeness(collected_info) ==
    LET Missing(f) == f \notin DOMAIN collected_info \/ ~Truthy(collected_info[f])
        missing_info == SelectSeq(required_fields, Missing)
    IN  [ is_complete |-> Len(missing_info) = 0,
          missing_info |-> missing_info,
          completeness_rate |->
              << Len(required_fields) - Len(missing_info), Len(required_fields) >> ]

\* Branch with the completeness and ceiling tests made before the floor test
BranchNoFloor(current_round, collected_info) ==
    IF check_information_completeness(collected_info).is_complete
       \/ current_round >= config.max_rounds
    THEN "generate"
    ELSE IF current_round < config.min_rounds THEN "collect" ELSE "missing"

\* Branch with the ceiling compared by > instead of >=
BranchStrictCeiling(current_round, collected_info) ==
    IF current_round < config.min_rounds THEN "collect"
    ELSE IF check_information_completeness(collected_info).is_complete
            \/ current_round > config.max_rounds
         THEN "generate"
         ELSE "missing"

\* Branch without the ceiling test
BranchNoCeiling(current_round, collected_info) ==
    IF current_round < config.min_rounds THEN "collect"
    ELSE IF check_information_completeness(collected_info).is_complete
         THEN "generate"
         ELSE "missing"

\* the branch process_user_input takes for a round and the merged collected_info
Branch(current_round, collected_info) ==
    IF current_round < config.min_rounds THEN "collect"
    ELSE IF check_information_completeness(collected_info).is_complete
            \/ current_round >= config.max_rounds
         THEN "generate"
         ELSE "missing"

\* StageForRound indexing stage_flow one entry too low
StageForRoundOffByOne(current_round) ==
    stage_flow[IF current_round >= Len(stage_flow) THEN Len(stage_flow)
               ELSE IF current_round < 1 THEN 1 ELSE current_round]

\* the stage _continue_information_collection switches to for a round
StageForRound(current_round) ==
    LET stage_index == IF current_round >= Len(stage_flow)
                       THEN Len(stage_flow) - 1
                       ELSE current_round
        Min(a, b) == IF a < b THEN a ELSE b
    IN  stage_flow[Min(stage_index, Len(stage_flow) - 1) + 1]

MissingPrompt == "missing_information_prompt"
Notification == "generation_started_notification"
CompletionMessage == "generation_completed_message"
InitialMessage == "initial_guidance"
SystemRole == "SYSTEM_ROLE"

\* _continue_information_collection: the session after it, and its response
continue_information_collection(s, current_round, collector_ok) ==
    LET next_stage == StageForRound(current_round)
        staged == update_current_stage(s, next_stage)
        conversation_history == get_messages_for_api(staged, 6)
        response_message == collect_information(collector_ok)
    IN  [ session |-> add_message(staged, "assistant", response_message),
          collector_calls |-> << [ current_stage |-> next_stage,
                                   conversation_history |-> conversation_history,
                                   ok |-> collector_ok ] >>,
          response |-> [ session_id |-> SessionId, stage |-> next_stage,
                         message |-> response_message,
                         round |-> current_round + 1,
                         status |-> "collecting" ] ]

\* missing_info_text: the names of the missing fields joined by a separator
RECURSIVE missing_info_text(_)
missing_info_text(missing_info) ==
    IF missing_info = << >> THEN ""
    ELSE IF Len(missing_info) = 1 THEN missing_info[1]
    ELSE missing_info[1] \o ", " \o missing_info_text(Tail(missing_info))

\* _collect_missing_information asking for more without naming any field
collect_missing_information_unnamed(s, missing_info) ==
    [ session |-> add_message(s, "assistant", MissingPrompt),
      response |-> [ session_id |-> SessionId, stage |-> "collecting_missing",
                     message |-> MissingPrompt, missing_info |-> missing_info,
                     status |-> "collecting" ] ]

\* _collect_missing_information persisting the stage it reports
collect_missing_information_staged(s, missing_info) ==
    LET prompt == MissingPrompt \o ": " \o missing_info_text(missing_info)
    IN  [ session |-> add_message(update_current_stage(s, "collecting_missing"),
                                  "assistant", MissingPrompt),
          response |-> [ session_id |-> SessionId, stage |-> "collecting_missing",
                         message |-> prompt, missing_info |-> missing_info,
                         status |-> "collecting" ] ]

\* _collect_missing_information: the session after it, and its response.
\* The response carries the prompt in full; the transcript entry is kept as
\* the fixed part of the prompt, the field names it interpolates left out.
collect_missing_information(s, missing_info) ==
    LET prompt == MissingPrompt \o ": " \o missing_info_text(missing_info)
    IN  [ session |-> add_message(s, "assistant", MissingPrompt),
          response |-> [ session_id |-> SessionId, stage |-> "collecting_missing",
                         message |-> prompt, missing_info |-> missing_info,
                         status |-> "collecting" ] ]

\* runs: the collaborative_generation calls _generate_full_paper has made;
\* collector_calls: the collect_information calls of the turn
Idle ==
    [ pc |-> "idle", branch |-> "none", current_round |-> 0,
      section_index |-> 1, paper_content |-> EmptyMap, runs |-> << >>,
      collector_calls |-> << >> ]

\* one collaborative_generation call as its caller sees it
Run(section, iterations, result) ==
    [ section |-> section, iterations |-> iterations, status |-> result.status,
      final_content |-> result.final_content, trace |-> result.iterations,
      calls |-> result.calls ]

NoResponse == [ k \in {} |-> "" ]

UserInputs == { "user_text" }

Configs ==
    { [ min_rounds |-> DefaultMinRounds, max_rounds |-> DefaultMaxRounds ],
      [ min_rounds |-> 2, max_rounds |-> 4 ],
      [ min_rounds |-> 3, max_rounds |-> 2 ] }

\* the round taken as the number of message pairs begun
CurrentRoundBegun(s) == (Len(s.messages) + 1) \div 2

\* current_round = len(session.messages) // 2
CurrentRound(s) == Len(s.messages) \div 2

UserTurns(s) == Len(SelectSeq(s.messages, LAMBDA m : m.role = "user"))

Fails(b) == IF b THEN 0 ELSE 1

\* whether a chat call can return: never when no backend is registered
BackendOutcomes == IF NoBackend THEN { FALSE } ELSE BOOLEAN

\* no session is stored
NoStore == EmptyMap

\* the last call was a user turn, or none was made yet
NoOp == [ name |-> "none" ]

\* an operation's outcome: it returned value (with the status field status,
\* "" when the value has none) or raised the error value; loop_status is the
\* status of the generation loop it ran, "" when it ran none
Outcome(name, session_id, outcome, value, status, loop_status) ==
    [ name |-> name, session_id |-> session_id, outcome |-> outcome,
      value |-> value, status |-> status, loop_status |-> loop_status ]

SessionNotFound == "ValueError_session_not_found"

\* ConversationManager.get_session finds a session under the identifier
session_exists(session_id) == session_id = SessionId /\ session.created

RegenSections == { sections[i] : i \in 1 .. MaxRegenSections }

\* the names of the registered backends, in registration order
Backends == [ i \in 1 .. MaxServices |-> "backend_" \o ToString(i) ]

(***************************************************************************)
(* The operations.                                                         *)
(***************************************************************************)
\* start_new_paper: the session is created and seeded with the system
\* message and the initial guidance
StartNewPaper ==
    /\ ~session.created
    /\ call.pc = "idle"
    /\ session' = add_message(add_message(create_session, "system", SystemRole),
                              "assistant", InitialMessage)
    /\ response' = [ session_id |-> SessionId, stage |-> "initial",
                     message |-> InitialMessage, round |-> 1 ]
    /\ op' = NoOp
    /\ UNCHANGED << config, call, failures, gen, engine, store, now >>

\* process_user_input, up to its return on the collection and the
\* missing-information branch, and up to the call of _generate_full_paper on
\* the generation branch; a session takes at most max_turns user turns
ProcessUserInputUpTo(max_turns) ==
    /\ session.created
    /\ call.pc = "idle"
    /\ UserTurns(session) < max_turns
    /\ \E user_input \in UserInputs, resp \in ExtractionResponses,
          collector_ok \in BackendOutcomes :
         LET s1 == add_message(session, "user", user_input)
             extracted_info == extract_information(user_input, resp)
             collected_info == DictUpdate(s1.collected_info, extracted_info)
             s2 == update_collected_info(s1, collected_info)
             current_round == CurrentRound(s1)
             branch == Branch(current_round, collected_info)
             collector_called == branch = "collect"
             raised == IF NoBackend THEN 0
                       ELSE Fails(resp.returns)
                              + (IF collector_called THEN Fails(collector_ok) ELSE 0)
             collected == continue_information_collection(s2, current_round, collector_ok)
             asked == collect_missing_information(s2,
                          check_information_completeness(collected_info).missing_info)
         IN  /\ NoBackend => ~resp.returns
             /\ ~collector_called => collector_ok = (~NoBackend)
             /\ failures + raised <= MaxFailures
             /\ failures' = failures + raised
             /\ call' = [ Idle EXCEPT
                            !.pc = IF branch = "generate" THEN "generate_full_paper"
                                                          ELSE "idle",
                            !.branch = branch,
                            !.current_round = current_round,
                            !.collector_calls =
                                IF collector_called THEN collected.collector_calls
                                ELSE << >> ]
             /\ session' =
                  CASE branch = "collect" -> collected.session
                    [] branch = "missing" -> asked.session
                    [] OTHER ->
                         add_message(update_current_stage(s2, "generating"),
                                     "assistant", Notification)
             /\ response' =
                  CASE branch = "collect" -> collected.response
                    [] branch = "missing" -> asked.response
                    [] OTHER -> response
    /\ op' = NoOp
    /\ UNCHANGED << config, gen, engine, store, now >>

ProcessUserInput == ProcessUserInputUpTo(MaxTurns)

\* one pass of the section loop of _generate_full_paper
GenerateSection ==
    /\ call.pc = "generate_full_paper"
    /\ call.section_index <= Len(sections)
    /\ \E outs \in [ CallsOf(1) -> BackendOutcomes ] :
         LET section == sections[call.section_index]
             result == collaborative_generation(section, 1, outs)
             raised == IF NoBackend THEN 0
                       ELSE Cardinality({ n \in CallsOf(1) : ~outs[n] })
         IN  /\ failures + raised <= MaxFailures
             /\ failures' = failures + raised
             /\ call' = [ call EXCEPT
                            !.section_index = @ + 1,
                            !.paper_content =
                                DictUpdate(@, section :> result.final_content),
                            !.runs = Append(@, Run(section, 1, result)) ]
             /\ session' = update_generation_process(session, section,
                                                     result.iterations)
    /\ UNCHANGED << config, response, gen, engine, op, store, now >>

\* _start_paper_generation after _generate_full_paper has returned
FinishGeneration ==
    /\ call.pc = "generate_full_paper"
    /\ call.section_index > Len(sections)
    /\ session' = add_message(
                      update_session_status(
                          update_paper_content(session, call.paper_content),
                          "completed"),
                      "assistant", CompletionMessage)
    /\ response' = [ session_id |-> SessionId, stage |-> "completed",
                     message |-> CompletionMessage,
                     paper_content |-> call.paper_content,
                     status |-> "completed" ]
    /\ call' = [ call EXCEPT !.pc = "idle" ]
    /\ UNCHANGED << config, failures, gen, engine, op, store, now >>

\* process_user_input addressed to an identifier get_session finds nothing
\* under: the error dict is returned before anything is written
ProcessUserInputNotFound ==
    /\ call.pc = "idle"
    /\ \E session_id \in SessionIds :
         /\ ~session_exists(session_id)
         /\ response' = [ error |-> "session_does_not_exist" ]
         /\ call' = [ Idle EXCEPT !.branch = "not_found" ]
    /\ op' = NoOp
    /\ UNCHANGED << config, session, failures, gen, engine, store, now >>

\* get_messages: the transcript, or an empty list when no session is found
GetMessages ==
    /\ call.pc = "idle"
    /\ \E session_id \in SessionIds :
         op' = Outcome("get_messages", session_id, "returned",
                       IF session_exists(session_id) /\ Len(session.messages) > 0
                       THEN "messages" ELSE "[]",
                       "", "")
    /\ UNCHANGED << config, session, call, response, failures, gen, engine, store, now >>

\* get_context: the context dict, or an empty dict when no session is found
GetContext ==
    /\ call.pc = "idle"
    /\ \E session_id \in SessionIds :
         op' = Outcome("get_context", session_id, "returned",
                       IF session_exists(session_id) THEN "context" ELSE "{}",
                       "", "")
    /\ UNCHANGED << config, session, call, response, failures, gen, engine, store, now >>

\* get_paper_content: get_context(session_id).get("paper_content")
get_paper_content(session_id) ==
    IF session_exists(session_id) /\ session.has_paper_content
    THEN "paper_content" ELSE None

GetPaperContent ==
    /\ call.pc = "idle"
    /\ \E session_id \in SessionIds :
         op' = Outcome("get_paper_content", session_id, "returned",
                       get_paper_content(session_id), "", "")
    /\ UNCHANGED << config, session, call, response, failures, gen, engine, store, now >>

\* export_paper: the empty string when there is no paper content, else the
\* text in the format asked for (markdown for any format but "text")
ExportPaper ==
    /\ call.pc = "idle"
    /\ \E session_id \in SessionIds, format \in { "markdown", "text", "pdf" } :
         op' = Outcome("export_paper", session_id, "returned",
                       IF get_paper_content(session_id) = None THEN ""
                       ELSE IF format = "text" THEN "paper_as_text"
                       ELSE "paper_as_markdown",
                       "", "")
    /\ UNCHANGED << config, session, call, response, failures, gen, engine, store, now >>

\* add_message, update_context and update_session_status addressed to an
\* identifier no session is found under: each raises ValueError (the calls
\* on a stored session are the ones the handlers above make)
StoreWriteNotFound ==
    /\ call.pc = "idle"
    /\ \E session_id \in SessionIds,
          name \in { "add_message", "update_context", "update_session_status" } :
         /\ ~session_exists(session_id)
         /\ op' = Outcome(name, session_id, "raised", SessionNotFound, "", "")
    /\ UNCHANGED << config, session, call, response, failures, gen, engine, store, now >>

\* delete_session: the session is dropped from memory and disk; nothing is
\* reported when there was none
DeleteSession ==
    /\ call.pc = "idle"
    /\ \E session_id \in SessionIds :
         /\ session' = IF session_id = SessionId THEN NoSession ELSE session
         /\ op' = Outcome("delete_session", session_id, "returned", None, "", "")
    /\ UNCHANGED << config, call, response, failures, gen, engine, store, now >>

\* what regenerate_section returned or raised, for a section
RegenOutcome(session_id, section, outcome, value, status, loop_status) ==
    [ name |-> "regenerate_section", session_id |-> session_id, section |-> section,
      outcome |-> outcome, value |-> value, status |-> status,
      loop_status |-> loop_status ]

\* regenerate_section starting from an empty mapping instead of the stored one
regenerate_section_fresh(s, section, result) ==
    [ s EXCEPT !.has_paper_content = TRUE,
               !.paper_content = section :> result.final_content ]

\* regenerate_section on a stored session: the section's new text is put in
\* context.get("paper_content", {}) and the mapping is stored
regenerate_section(s, section, result) ==
    [ s EXCEPT !.has_paper_content = TRUE,
               !.paper_content = DictUpdate(@, section :> result.final_content) ]

\* regenerate_section: the loop runs on whatever get_context returns, then
\* update_context stores the section (and raises on a missing session)
RegenerateSection ==
    /\ call.pc = "idle"
    /\ \E session_id \in SessionIds, section \in RegenSections,
          outs \in [ CallsOf(1) -> BackendOutcomes ] :
         LET result == collaborative_generation(section, 1, outs)
             raised == IF NoBackend THEN 0
                       ELSE Cardinality({ n \in CallsOf(1) : ~outs[n] })
         IN  /\ failures + raised <= MaxFailures
             /\ failures' = failures + raised
             /\ IF session_exists(session_id)
                THEN /\ session' = regenerate_section(session, section, result)
                     /\ op' = RegenOutcome(session_id, section, "returned",
                                           result.final_content, "success",
                                           result.status)
                ELSE /\ session' = session
                     /\ op' = RegenOutcome(session_id, section, "raised",
                                           SessionNotFound, "", result.status)
    /\ UNCHANGED << config, call, response, gen, engine, store, now >>

\* one call of collaborative_generation(section, collected_info, iterations),
\* the backend failing as outs says
RunGeneration ==
    /\ ~gen.ran
    /\ gen' = [ gen EXCEPT
                  !.ran = TRUE,
                  !.result = collaborative_generation(gen.section, gen.iterations,
                                                      gen.outs) ]
    /\ UNCHANGED << config, session, call, response, failures, engine, op, store, now >>

Init ==
    /\ config \in Configs
    /\ session = NoSession
    /\ call = Idle
    /\ response = NoResponse
    /\ failures = 0
    /\ gen = NoRun
    /\ \E services \in { << >>, << Backends[1] >> } :
         engine = MultiModelCollaborationEngine(services, TRUE)
    /\ op = NoOp
    /\ store = NoStore
    /\ now = 0

Next ==
    \/ StartNewPaper
    \/ ProcessUserInput
    \/ GenerateSection
    \/ FinishGeneration

Spec == Init /\ [][Next]_vars

\* the moment _start_paper_generation calls _generate_full_paper: a session
\* started, taken through one collection turn and through a second turn whose
\* extraction completed the information, with no backend call failed so far
InitPaper ==
    /\ config = [ min_rounds |-> 2, max_rounds |-> 4 ]
    /\ engine = MultiModelCollaborationEngine(<< Backends[1] >>, TRUE)
    /\ failures = 0
    /\ gen = NoRun
    /\ op = NoOp
    /\ store = NoStore
    /\ now = 0
    /\ \E user_input \in UserInputs :
       \E resp1, resp2 \in { r \in ExtractionResponses : r.returns } :
         LET started == add_message(add_message(create_session, "system", SystemRole),
                                    "assistant", InitialMessage)
             t1 == add_message(started, "user", user_input)
             info1 == DictUpdate(t1.collected_info,
                                 extract_information(user_input, resp1))
             first == continue_information_collection(
                          update_collected_info(t1, info1), CurrentRound(t1), TRUE)
             t2 == add_message(first.session, "user", user_input)
             info2 == DictUpdate(t2.collected_info,
                                 extract_information(user_input, resp2))
         IN  /\ Branch(CurrentRound(t1), info1) = "collect"
             /\ Branch(CurrentRound(t2), info2) = "generate"
             /\ session = add_message(
                              update_current_stage(update_collected_info(t2, info2),
                                                   "generating"),
                              "assistant", Notification)
             /\ call = [ Idle EXCEPT !.pc = "generate_full_paper",
                                     !.branch = "generate",
                                     !.current_round = CurrentRound(t2) ]
             /\ response = first.response

NextPaper == GenerateSection \/ FinishGeneration

\* _generate_full_paper run to its return: the section loop and what follows
\* it are straight-line code around backend calls that return or fail
SpecPaper ==
    InitPaper /\ [][NextPaper]_vars
        /\ WF_vars(GenerateSection) /\ WF_vars(FinishGeneration)

\* the configurations whose floor does not exceed the ceiling
ValidConfigs == { c \in Configs : c.min_rounds <= c.max_rounds }

InitValid == Init /\ config \in ValidConfigs

SpecValid == InitValid /\ [][Next]_vars

\* the user turns together with the operations called between them
InitOps ==
    /\ Init
    /\ config = [ min_rounds |-> 2, max_rounds |-> 4 ]
    /\ ~NoBackend

NextOps ==
    \/ Next
    \/ ProcessUserInputNotFound
    \/ RegenerateSection
    \/ GetMessages
    \/ GetContext
    \/ GetPaperContent
    \/ ExportPaper
    \/ StoreWriteNotFound
    \/ DeleteSession

SpecOps == InitOps /\ [][NextOps]_vars

\* the generator on its default configuration, with a backend
InitRegen ==
    /\ Init
    /\ config = [ min_rounds |-> DefaultMinRounds, max_rounds |-> DefaultMaxRounds ]
    /\ ~NoBackend

NextRegen == Next \/ RegenerateSection

\* user turns, generations and regenerations of sections in any order
SpecRegen == InitRegen /\ [][NextRegen]_vars

NextTurns == StartNewPaper \/ ProcessUserInput

\* user turns up to the moment a generation starts
SpecTurns == Init /\ [][NextTurns]_vars

\* nothing but the registry and the engine exists yet
Quiescent ==
    /\ config = [ min_rounds |-> DefaultMinRounds, max_rounds |-> DefaultMaxRounds ]
    /\ session = NoSession
    /\ call = Idle
    /\ response = NoResponse
    /\ failures = 0
    /\ gen = NoRun
    /\ store = NoStore
    /\ now = 0

\* a call of a function that has not been made yet: its arguments only
NotCalled(name, args) == [ name |-> name, ran |-> FALSE, args |-> args ]

\* the call made: its arguments and what it returned
Called(o, result) == [ name |-> o.name, ran |-> TRUE, args |-> o.args, result |-> result ]

\* the collected_info dicts the checker is tried on: any of the required
\* fields and the catch-all key, each empty or filled
CollectedInfos ==
    UNION { [ keys -> { "", "text" } ] :
              keys \in SUBSET (Range(required_fields) \cup { UserSupplement }) }

\* one call of _check_information_completeness(collected_info)
CheckInformationCompleteness ==
    /\ op.name = "check_information_completeness"
    /\ ~op.ran
    /\ op' = Called(op, check_information_completeness(op.args))
    /\ UNCHANGED << config, session, call, response, failures, gen, engine, store, now >>

InitCheck ==
    /\ Quiescent
    /\ engine = MultiModelCollaborationEngine(<< Backends[1] >>, TRUE)
    /\ \E collected_info \in CollectedInfos :
         op = NotCalled("check_information_completeness", collected_info)

NextCheck == CheckInformationCompleteness

\* the completeness checker on its own
SpecCheck == InitCheck /\ [][NextCheck]_vars

\* the texts a backend may answer the extraction prompt with
ReplyTexts == UNION { [ 1 .. n -> Tokens ] : n \in 0 .. MaxTextLen }

\* the replies of the extraction call: it raises, or returns a text whose
\* members, if any, denote one fixed object
ExtractionReplies ==
    { ExtractionReply(FALSE, << >>, EmptyMap) }
        \cup { ExtractionReply(TRUE, text, required_fields[1] :> "text") :
                 text \in ReplyTexts }

\* one call of _extract_information(user_input, stage)
ExtractInformation ==
    /\ op.name = "extract_information"
    /\ ~op.ran
    /\ op' = Called(op, extract_information(op.args.user_input, op.args.resp))
    /\ UNCHANGED << config, session, call, response, failures, gen, engine, store, now >>

InitExtract ==
    /\ Quiescent
    /\ engine = MultiModelCollaborationEngine(<< Backends[1] >>, TRUE)
    /\ \E user_input \in UserInputs, resp \in ExtractionReplies :
         op = NotCalled("extract_information",
                        [ user_input |-> user_input, resp |-> resp ])

NextExtract == ExtractInformation

\* the information extractor on its own
SpecExtract == InitExtract /\ [][NextExtract]_vars

\* the orders in which up to MaxServices backends can be registered
Registries ==
    { services \in UNION { [ 1 .. n -> Range(Backends) ] : n \in 0 .. MaxServices } :
        \A i, j \in DOMAIN services : services[i] = services[j] => i = j }

\* the engine is constructed on the loaded registry
ConstructEngine ==
    /\ ~engine.constructed
    /\ engine' = MultiModelCollaborationEngine(engine.services, engine.config_present)
    /\ UNCHANGED << config, session, call, response, failures, gen, op, store, now >>

\* a role method makes its backend call
Dispatch ==
    /\ engine.constructed
    /\ \E i \in DOMAIN ModelRoles, ok \in BOOLEAN :
         op' = Called(NotCalled("dispatch", [ role |-> ModelRoles[i], ok |-> ok ]),
                      dispatch(engine, ModelRoles[i], ok))
    /\ UNCHANGED << config, session, call, response, failures, gen, engine, store, now >>

\* a backend call is made from one of the call sites
CallFrom ==
    /\ engine.constructed
    /\ \E site \in DOMAIN CallSites, ok \in BOOLEAN :
         op' = Called(NotCalled("call_from", [ site |-> site, ok |-> ok ]),
                      call_from(engine, site, ok))
    /\ UNCHANGED << config, session, call, response, failures, gen, engine, store, now >>

InitEngine ==
    /\ Quiescent
    /\ \E services \in Registries, config_present \in BOOLEAN :
         engine = NoEngine(services, config_present)
    /\ op = NoOp

NextEngine ==
    \/ ConstructEngine
    \/ Dispatch
    \/ CallFrom

\* startup and role dispatch on their own
SpecEngine == InitEngine /\ [][NextEngine]_vars

\* the generation loop on its own
InitGen ==
    /\ config = [ min_rounds |-> DefaultMinRounds, max_rounds |-> DefaultMaxRounds ]
    /\ session = NoSession
    /\ call = Idle
    /\ response = NoResponse
    /\ failures = 0
    /\ engine = MultiModelCollaborationEngine(<< Backends[1] >>, TRUE)
    /\ op = NoOp
    /\ store = NoStore
    /\ now = 0
    /\ \E section \in Range(sections), iterations \in 0 .. MaxIterations :
         \E outs \in [ CallsOf(iterations) -> BOOLEAN ] :
            gen = NotRun(section, iterations, outs)

NextGen == RunGeneration

SpecGen == InitGen /\ [][NextGen]_vars

\* collaborative_generation called without an iteration count
CollaborativeGenerationDefault ==
    /\ op.name = "collaborative_generation"
    /\ ~op.ran
    /\ op' = Called(op, collaborative_generation_default(op.args.section,
                                                         op.args.outs))
    /\ UNCHANGED << config, session, call, response, failures, gen, engine, store, now >>

InitDefault ==
    /\ Quiescent
    /\ engine = MultiModelCollaborationEngine(<< Backends[1] >>, TRUE)
    /\ \E section \in Range(sections) :
         \E outs \in [ CallsOf(MaxIterations) -> BOOLEAN ] :
            op = NotCalled("collaborative_generation",
                           [ section |-> section, outs |-> outs ])

NextDefault == CollaborativeGenerationDefault

\* the loop on its own, called with its default iteration count
SpecDefault == InitDefault /\ [][NextDefault]_vars

(***************************************************************************)
(* export_paper as a function of the mapping, the format and the clock. A  *)
(* document is the sequence of its lines; the Chinese titles are written   *)
(* in transliteration.                                                     *)
(***************************************************************************)

\* instants of the clock in one second: strftime's %S drops the rest
TicksPerSecond == 2

\* datetime.now().strftime('%Y-%m-%d %H:%M:%S') at instant t
strftime(t) == ToString(t \div TicksPerSecond)

\* sections_order of _export_as_markdown with two sections exchanged
markdown_sections_swapped ==
    << << "abstract", "zhaiyao (Abstract)" >>,
       << "literature_review", "wenxian zongshu (Literature Review)" >>,
       << "introduction", "yinyan (Introduction)" >>,
       << "methodology", "yanjiu fangfa (Methodology)" >>,
       << "results", "yanjiu jieguo (Results)" >>,
       << "discussion", "taolun (Discussion)" >>,
       << "conclusion", "jielun (Conclusion)" >> >>

\* sections_order of _export_as_markdown: keys and titles
markdown_sections_order ==
    << << "abstract", "zhaiyao (Abstract)" >>,
       << "introduction", "yinyan (Introduction)" >>,
       << "literature_review", "wenxian zongshu (Literature Review)" >>,
       << "methodology", "yanjiu fangfa (Methodology)" >>,
       << "results", "yanjiu jieguo (Results)" >>,
       << "discussion", "taolun (Discussion)" >>,
       << "conclusion", "jielun (Conclusion)" >> >>

\* sections_order of _export_as_text: keys and titles
text_sections_order ==
    << << "abstract", "zhaiyao" >>,
       << "introduction", "yinyan" >>,
       << "literature_review", "wenxian zongshu" >>,
       << "methodology", "yanjiu fangfa" >>,
       << "results", "yanjiu jieguo" >>,
       << "discussion", "taolun" >>,
       << "conclusion", "jielun" >> >>

MarkdownHeading(title) == "## " \o title
TextHeading(title) == title
TextRule == "------------------------------------------------------------"
TextFrame == "============================================================"

\* the loop of _export_as_markdown from the i-th entry of sections_order on
RECURSIVE markdown_body(_, _)
markdown_body(paper_content, i) ==
    IF i > Len(markdown_sections_order) THEN << >>
    ELSE (IF markdown_sections_order[i][1] \in DOMAIN paper_content
             THEN << MarkdownHeading(markdown_sections_order[i][2]),
                     paper_content[markdown_sections_order[i][1]] >>
             ELSE << >>)
         \o markdown_body(paper_content, i + 1)

\* the loop of _export_as_text from the i-th entry of sections_order on
RECURSIVE text_body(_, _)
text_body(paper_content, i) ==
    IF i > Len(text_sections_order) THEN << >>
    ELSE (IF text_sections_order[i][1] \in DOMAIN paper_content
             THEN << TextHeading(text_sections_order[i][2]), TextRule,
                     paper_content[text_sections_order[i][1]] >>
             ELSE << >>)
         \o text_body(paper_content, i + 1)

export_as_markdown(paper_content, t) ==
    << "# xueshu lunwen", "shengcheng shijian: " \o strftime(t), "---" >>
        \o markdown_body(paper_content, 1)

export_as_text(paper_content, t) ==
    << TextFrame, "xueshu lunwen", "shengcheng shijian: " \o strftime(t), TextFrame >>
        \o text_body(paper_content, 1)

\* export_paper on what get_paper_content returned (absent, or a mapping),
\* at instant t: no line at all when the mapping is absent or empty
export_paper(has_paper_content, paper_content, format, t) ==
    IF ~has_paper_content \/ paper_content = EmptyMap THEN << >>
    ELSE IF format = "markdown" THEN export_as_markdown(paper_content, t)
    ELSE IF format = "text" THEN export_as_text(paper_content, t)
    ELSE export_as_markdown(paper_content, t)

\* the text stored under a section key
TextOf(key) == "text of " \o key

\* the paper_content mappings exported: absent, or any of the seven sections
\* and a key the export does not know
PaperContents ==
    { [ has_paper_content |-> FALSE, paper_content |-> EmptyMap ] }
      \cup { [ has_paper_content |-> TRUE,
               paper_content |-> [ k \in keys |-> TextOf(k) ] ] :
               keys \in SUBSET (Range(sections) \cup { "references" }) }

ExportFormats == { "markdown", "text", "pdf" }

\* one more export of the same mapping in the same format, now
ExportAgain ==
    /\ op.name = "export_paper"
    /\ Len(op.results) < MaxExports
    /\ op' = [ op EXCEPT !.results =
                  Append(@, export_paper(op.args.has_paper_content,
                                         op.args.paper_content,
                                         op.args.format, now)) ]
    /\ UNCHANGED << config, session, call, response, failures, gen, engine, store, now >>

\* time passes
Tick ==
    /\ now < MaxClock
    /\ now' = now + 1
    /\ UNCHANGED << config, session, call, response, failures, gen, engine, op, store >>

InitExport ==
    /\ Quiescent
    /\ engine = MultiModelCollaborationEngine(<< Backends[1] >>, TRUE)
    /\ \E p \in PaperContents, format \in ExportFormats :
         op = [ name |-> "export_paper",
                args |-> [ has_paper_content |-> p.has_paper_content,
                           paper_content |-> p.paper_content,
                           format |-> format ],
                results |-> << >> ]

NextExport == ExportAgain \/ Tick

\* exports of one unchanged mapping while time passes
SpecExport == InitExport /\ [][NextExport]_vars

(***************************************************************************)
(* ConversationManager as a store of several sessions: active_sessions and *)
(* the session files, which every write keeps equal.                       *)
(***************************************************************************)

UserIds == { "user_a", "user_b" }

\* f"{user_id}_{datetime.now().strftime('%Y%m%d_%H%M%S')}" at instant t
session_id(user_id, t) == user_id \o "_" \o strftime(t)

\* the identifiers create_session can produce
StoreIds == { session_id(u, t) : u \in UserIds, t \in 0 .. MaxClock }

\* a write that puts the record under every identifier
save_session_everywhere(st, id, s) == [ k \in (DOMAIN st) \cup { id } |-> s ]

\* active_sessions[session_id] = session and _save_session: the record is
\* put under its identifier, replacing what was there
save_session(st, id, s) ==
    [ k \in (DOMAIN st) \cup { id } |-> IF k = id THEN s ELSE st[k] ]

\* ConversationManager.create_session(user_id) at the present instant
CreateSession(user_id) ==
    /\ \/ Cardinality(DOMAIN store) < MaxSessions
       \/ session_id(user_id, now) \in DOMAIN store
    /\ store' = save_session(store, session_id(user_id, now), create_session)
    /\ UNCHANGED << config, session, call, response, failures, gen, engine, op, now >>

\* ConversationManager.add_message on a stored session
AddMessage(id) ==
    /\ id \in DOMAIN store
    /\ Len(store[id].messages) < MaxStoreMessages
    /\ store' = save_session(store, id, add_message(store[id], "user", "text"))
    /\ UNCHANGED << config, session, call, response, failures, gen, engine, op, now >>

\* ConversationManager.update_context on a stored session: the stage moved
\* by a turn, or the section stored by regenerate_section
UpdateContext(id) ==
    /\ id \in DOMAIN store
    /\ \/ store' = save_session(store, id,
                                update_current_stage(store[id], stage_flow[1]))
       \/ store' = save_session(store, id,
                                regenerate_section(store[id], sections[1],
                                                   [ final_content |-> Reply(1) ]))
    /\ UNCHANGED << config, session, call, response, failures, gen, engine, op, now >>

\* ConversationManager.update_session_status on a stored session
UpdateSessionStatus(id) ==
    /\ id \in DOMAIN store
    /\ store' = save_session(store, id, update_session_status(store[id], "completed"))
    /\ UNCHANGED << config, session, call, response, failures, gen, engine, op, now >>

\* a write of a user turn or of a regeneration, addressed to one session
StoreWrite(id) == AddMessage(id) \/ UpdateContext(id) \/ UpdateSessionStatus(id)

InitStore ==
    /\ Quiescent
    /\ engine = MultiModelCollaborationEngine(<< Backends[1] >>, TRUE)
    /\ op = NoOp

NextStore ==
    \/ \E user_id \in UserIds : CreateSession(user_id)
    \/ \E id \in StoreIds : AddMessage(id)
    \/ \E id \in StoreIds : UpdateContext(id)
    \/ \E id \in StoreIds : UpdateSessionStatus(id)
    \/ Tick

\* sessions created and written to in any interleaving, while time passes
SpecStore == InitStore /\ [][NextStore]_vars

(***************************************************************************)
(* app.py: the start-paper request on the store of sessions.               *)
(***************************************************************************)
\* start_paper: create_session at instant t1, update_context when the request
\* carries collected_info, then either the early return or start_new_paper,
\* whose own create_session runs at instant t2
start_paper(st, user_id, collected_info, skip_conversation, t1, t2) ==
    LET first == session_id(user_id, t1)
        created == save_session(st, first, create_session)
        prefilled ==
            IF collected_info # EmptyMap
            THEN save_session(created, first,
                     update_current_stage(
                         update_collected_info(created[first], collected_info),
                         IF skip_conversation THEN "generating" ELSE "initial"))
            ELSE created
        second == session_id(user_id, t2)
        started == save_session(prefilled, second,
                       add_message(add_message(create_session, "system", SystemRole),
                                   "assistant", InitialMessage))
    IN  IF skip_conversation
        THEN [ store |-> prefilled,
               data |-> [ session_id |-> first, stage |-> "generating" ] ]
        ELSE [ store |-> started,
               data |-> [ session_id |-> second, stage |-> "initial",
                          message |-> InitialMessage, round |-> 1 ] ]

\* one start-paper request; the clock may move on while it is served
StartPaper ==
    /\ Cardinality(DOMAIN store) < MaxSessions
    /\ \E user_id \in UserIds, skip_conversation \in BOOLEAN,
          collected_info \in { EmptyMap, required_fields[1] :> "text" },
          t2 \in { now, now + 1 } :
         LET result == start_paper(store, user_id, collected_info,
                                   skip_conversation, now, t2)
         IN  /\ t2 <= MaxClock
             /\ now' = t2
             /\ store' = result.store
             /\ op' = [ name |-> "start_paper",
                        args |-> [ user_id |-> user_id,
                                   collected_info |-> collected_info,
                                   skip_conversation |-> skip_conversation ],
                        data |-> result.data ]
    /\ UNCHANGED << config, session, call, response, failures, gen, engine >>

NextApp == StartPaper \/ Tick

\* start-paper requests while time passes
SpecApp == InitStore /\ [][NextApp]_vars

(***************************************************************************)
(* The claims.                                                             *)
(***************************************************************************)
StageIndex(stage) ==
    CHOOSE i \in DOMAIN PaperGenerationStage : PaperGenerationStage[i] = stage

IsComplete(s) == check_information_completeness(s.collected_info).is_complete

FieldFilled(s, f) ==
    f \notin Range(check_information_completeness(s.collected_info).missing_info)

Max(a, b) == IF a > b THEN a ELSE b

\* a process_user_input call has reached its branch
TurnTaken == call.branch # "none"

\* the last call has returned
Returned == call.pc = "idle"

\* C1: across sequential process_user_input calls the index of the persisted
\* current_stage in the fixed stage sequence never decreases.
C1_StageNeverRegresses ==
    [][ StageIndex(session'.current_stage) >= StageIndex(session.current_stage) ]_vars

\* C2: completed is terminal: once current_stage is completed, a later user
\* turn never moves it back to generating, never re-runs Paper Assembly and
\* never overwrites paper_content.
C2_CompletedIsTerminal ==
    [][ session.current_stage = "completed"
          => /\ session'.current_stage = "completed"
             /\ call'.pc # "generate_full_paper"
             /\ session'.paper_content = session.paper_content ]_vars

\* what a turn on the generation branch has done at each of its positions
GenerationStarted ==
    /\ call.branch = "generate"
    /\ call.pc = "generate_full_paper" => session.current_stage = "generating"
    /\ Returned => /\ session.current_stage = "completed"
                   /\ session.has_paper_content
                   /\ DOMAIN session.paper_content = Range(sections)
                   /\ response.status = "completed"

\* C3 (as stated): on any user turn whose round is >= max_rounds the
\* controller transitions to generating and runs Paper Assembly, whatever
\* collected_info contains.
C3_CeilingAsStated ==
    (TurnTaken /\ call.current_round >= config.max_rounds) => GenerationStarted

\* C3 (amended): on any user turn whose round is >= max_rounds and not below
\* min_rounds the controller transitions to generating and runs Paper
\* Assembly, whatever collected_info contains.
C3_CeilingEnforced ==
    (TurnTaken /\ call.current_round >= config.max_rounds
               /\ call.current_round >= config.min_rounds) => GenerationStarted

\* a turn at the ceiling has generated the paper with no required field filled
C3_Witness ==
    /\ TurnTaken /\ Returned
    /\ call.current_round >= config.max_rounds
    /\ call.current_round >= config.min_rounds
    /\ check_information_completeness(session.collected_info).missing_info
         = required_fields
    /\ session.current_stage = "completed"

\* C4: once a required field of collected_info holds a non-empty value, no
\* later user turn makes the Completeness Checker report it missing again.
C4_CompletenessMonotone ==
    [][ \A f \in Range(required_fields) :
          FieldFilled(session, f) => FieldFilled(session', f) ]_vars

\* the session is one start_new_paper created and the last turn has returned
AtTurn(k) == session.created /\ Returned /\ UserTurns(session) = k

Generated == session.current_stage = "completed" /\ session.status = "completed"

\* C5 (as stated): a session created by start_new_paper and driven one turn
\* at a time has reached generating and then completed no later than the
\* max_rounds-th user turn, or earlier once round >= min_rounds and the
\* required fields are complete.
C5_BoundedProgressAsStated ==
    /\ call.pc = "generate_full_paper" => session.current_stage = "generating"
    /\ \A k \in 1 .. MaxTurns :
         (AtTurn(k) /\ (k >= config.max_rounds
                          \/ (k >= config.min_rounds /\ IsComplete(session))))
            => Generated

\* C5 (amended): such a session has reached generating and then completed no
\* later than user turn max(min_rounds, max_rounds), or earlier once
\* round >= min_rounds and the required fields are complete.
C5_BoundedProgress ==
    /\ call.pc = "generate_full_paper" => session.current_stage = "generating"
    /\ \A k \in 1 .. MaxTurns :
         (AtTurn(k) /\ k >= config.min_rounds
                    /\ (k >= config.max_rounds \/ IsComplete(session)))
            => Generated

\* the ceiling turn itself has returned with the paper generated from
\* incomplete information
C5_Witness ==
    /\ AtTurn(Max(config.min_rounds, config.max_rounds))
    /\ ~IsComplete(session)
    /\ Generated

\* every backend call so far answered a text without JSON: nothing was
\* extracted and no collector reply is the degraded one
BackendsAnswerOk ==
    /\ DOMAIN session.collected_info \subseteq { UserSupplement }
    /\ \A i \in DOMAIN session.messages :
         session.messages[i].content # CollectFailedText

\* C6 (as stated): with min_rounds = 5 and backends that always answer "ok",
\* each of the first five user turns returns status collecting and the fifth
\* call returns round = 6.
C6_ScenarioAsStated ==
    \A k \in 1 .. DefaultMinRounds :
      (config.min_rounds = DefaultMinRounds /\ config.max_rounds > DefaultMinRounds
         /\ BackendsAnswerOk /\ AtTurn(k))
        => /\ response.status = "collecting"
           /\ k = DefaultMinRounds
                => ("round" \in DOMAIN response /\ response.round = k + 1)

\* C6 (amended): with min_rounds = 5 < max_rounds and backends that always
\* answer "ok", each of the first five user turns returns status collecting;
\* the k-th of the first four persists stage_flow[k] and returns round k + 1;
\* the fifth takes the missing-information branch: it leaves the persisted
\* stage at the fifth entry of stage_flow (discussion) and returns stage
\* collecting_missing with the six missing fields and no round.
C6_Scenario ==
    \A k \in 1 .. DefaultMinRounds :
      (config.min_rounds = DefaultMinRounds /\ config.max_rounds > DefaultMinRounds
         /\ BackendsAnswerOk /\ AtTurn(k))
        => /\ response.status = "collecting"
           /\ k < DefaultMinRounds
                => /\ session.current_stage = stage_flow[k + 1]
                   /\ response.stage = stage_flow[k + 1]
                   /\ response.round = k + 1
           /\ k = DefaultMinRounds
                => /\ session.current_stage = stage_flow[DefaultMinRounds]
                   /\ response.stage = "collecting_missing"
                   /\ response.missing_info = required_fields
                   /\ "round" \notin DOMAIN response

\* the fifth turn of the scenario has returned
C6_Witness ==
    /\ config.min_rounds = DefaultMinRounds
    /\ BackendsAnswerOk
    /\ AtTurn(DefaultMinRounds)
    /\ response.stage = "collecting_missing"

\* C7: while round < min_rounds a user turn takes the collection branch and
\* never starts paper generation, even when all six required fields are
\* already filled.
C7_FloorEnforced ==
    (TurnTaken /\ call.current_round < config.min_rounds)
       => /\ call.branch = "collect"
          /\ Returned
          /\ response.status = "collecting"
          /\ ~session.has_paper_content
          /\ session.current_stage \notin { "generating", "completed" }

\* a turn below the floor has collected although the six fields are filled
C7_Witness ==
    /\ TurnTaken
    /\ call.current_round < config.min_rounds
    /\ IsComplete(session)
    /\ call.branch = "collect"

\* the positions, among the role calls a run issued, of those that raised
FailedCalls(r) == { j \in DOMAIN r.calls : ~r.calls[j].ok }

\* C8: in collaborative_generation a backend failure at any role call aborts
\* all further iterations, sets status to error and records the error
\* message; no role call is issued after the failing one.
C8_FailureAborts ==
    (gen.ran /\ FailedCalls(gen.result) # {})
       => /\ gen.result.status = "error"
          /\ gen.result.error # ""
          /\ \A j \in FailedCalls(gen.result) : j = Len(gen.result.calls)

\* the entries of a trace of the given iteration and type
EntriesOf(r, i, type) ==
    { j \in DOMAIN r.iterations :
        r.iterations[j].iteration = i /\ r.iterations[j].type = type }

\* the backend fails during iteration i (i >= 1) of the run, and only there
FailsOnlyIn(i) ==
    /\ \E n \in (3 * i - 1) .. (3 * i + 1) : ~gen.outs[n]
    /\ \A n \in DOMAIN gen.outs : ~gen.outs[n] => n \in (3 * i - 1) .. (3 * i + 1)

\* C9: in a 3-iteration run where the backend fails during iteration 2, at
\* whichever of its role calls, the result has status error and final_content
\* equal to the content of iteration 1's improved_generation step.
C9_PartialFailurePreserved ==
    (gen.ran /\ gen.iterations = 3 /\ FailsOnlyIn(2))
       => /\ gen.result.status = "error"
          /\ \E j \in EntriesOf(gen.result, 1, "improved_generation") :
               gen.result.final_content = gen.result.iterations[j].content

\* C10: if the very first generator call fails, the loop returns status error
\* with final_content the empty string: a backend error text is never stored
\* as a section's content.
C10_FirstFailureYieldsEmpty ==
    (gen.ran /\ ~gen.outs[1])
       => /\ gen.result.status = "error"
          /\ gen.result.final_content = ""
\* C11: whenever the generation loop for a section ends with status error,
\* the result its caller hands back (regenerate_section's, and the Paper
\* Assembly outcome the stage controller returns) carries an error status,
\* never a success or completed status.
C11_FailuresPropagate ==
    /\ (op.name = "regenerate_section" /\ op.outcome = "returned"
          /\ op.loop_status = "error")
         => op.status = "error"
    /\ (call.branch = "generate" /\ Returned
          /\ \E i \in DOMAIN call.runs : call.runs[i].status = "error")
         => response.status \notin { "success", "completed" }

\* C12: process_user_input never raises, and on every code path (collection,
\* missing-information prompt, generation, and a turn addressed to an unknown
\* session id) the response it returns carries an explicit status field.
C12_AlwaysStatus ==
    (TurnTaken /\ Returned) => "status" \in DOMAIN response

\* the operations addressed to a session by its identifier
SessionOperations ==
    { "regenerate_section", "export_paper", "get_paper_content", "get_context",
      "get_messages", "add_message", "update_context", "update_session_status" }

\* C17: every session-addressed operation called with an unknown or deleted
\* session id reports an explicit not-found result to its caller; none
\* answers with an empty-but-successful result.
C17_NotFoundReported ==
    /\ (op.name \in SessionOperations /\ ~session_exists(op.session_id))
         => (op.outcome = "raised" /\ op.value = SessionNotFound)
    /\ (call.branch = "not_found" /\ Returned) => "error" \in DOMAIN response

\* a user turn has just been taken on the collection branch
CollectionTurnStep ==
    /\ UserTurns(session') = UserTurns(session) + 1
    /\ call'.branch = "collect"

\* C13: with zero backends registered every role dispatch fails, and a
\* collection-phase user turn still does not crash: extraction falls back
\* silently, exactly one assistant message carrying a degraded text is
\* appended, and the response has status collecting.
C13_ZeroBackendsDegrade ==
    /\ [](NoBackend =>
            \A i \in DOMAIN ModelRoles, ok \in BOOLEAN :
               dispatch(engine, ModelRoles[i], ok).outcome = "raised")
    /\ [][ (NoBackend /\ CollectionTurnStep)
            => LET n == Len(session.messages)
               IN  /\ Len(session'.messages) = n + 2
                   /\ SubSeq(session'.messages, 1, n) = session.messages
                   /\ session'.messages[n + 1].role = "user"
                   /\ session'.messages[n + 2] = Message("assistant", CollectFailedText)
                   /\ \E u \in UserInputs :
                        session'.collected_info =
                            DictUpdate(session.collected_info, UserSupplement :> u)
                   /\ call'.pc = "idle"
                   /\ response'.status = "collecting" ]_vars

\* a collection turn has returned with no backend registered
C13_Witness ==
    /\ NoBackend
    /\ TurnTaken /\ Returned
    /\ call.branch = "collect"
    /\ session.messages[Len(session.messages)].content = CollectFailedText
    /\ UserSupplement \in DOMAIN session.collected_info

\* C18: across any sequence of user turns on one session the key set of
\* collected_info never shrinks: each turn's extraction output is merged in,
\* the later value winning on a key collision, and no key is ever removed.
C18_KeysNeverShrink ==
    [][ /\ DOMAIN session.collected_info \subseteq DOMAIN session'.collected_info
        /\ UserTurns(session') = UserTurns(session) + 1
             => \E u \in UserInputs, resp \in ExtractionResponses :
                  LET extracted == extract_information(u, resp)
                  IN  /\ DOMAIN session'.collected_info
                            = DOMAIN session.collected_info \cup DOMAIN extracted
                      /\ \A k \in DOMAIN session'.collected_info :
                           session'.collected_info[k] =
                               IF k \in DOMAIN extracted THEN extracted[k]
                               ELSE session.collected_info[k] ]_vars

\* a later turn has overwritten a filled field, next to a key of another turn
C18_Witness ==
    /\ UserTurns(session) >= 3
    /\ UserSupplement \in DOMAIN session.collected_info
    /\ required_fields[1] \in DOMAIN session.collected_info
    /\ session.collected_info[required_fields[1]] = ""
    /\ Cardinality(DOMAIN session.collected_info) >= 2

\* C20: Paper Assembly runs the generation loop exactly once per section,
\* with k = 1, in the fixed order abstract, introduction, literature_review,
\* methodology, results, discussion, conclusion; the returned mapping has
\* exactly these seven keys, each holding that section's final_content, and
\* each section's iteration trace is stored under that section's own key.
C20_AssemblyBySection ==
    call.branch = "generate"
       => /\ Len(call.runs) = call.section_index - 1
          /\ Len(call.runs) <= Len(sections)
          /\ DOMAIN call.paper_content = { sections[i] : i \in DOMAIN call.runs }
          /\ \A i \in DOMAIN call.runs :
               LET run == call.runs[i]
               IN  /\ run.section = sections[i]
                   /\ run.iterations = 1
                   /\ \A j \in DOMAIN run.trace : run.trace[j].iteration <= 1
                   /\ call.paper_content[run.section] = run.final_content
                   /\ run.section \in DOMAIN session.generation_process
                   /\ session.generation_process[run.section] = run.trace
          /\ Returned
               => /\ Len(call.runs) = 7
                  /\ response.paper_content = call.paper_content
                  /\ session.paper_content = call.paper_content
                  /\ DOMAIN response.paper_content =
                        { "abstract", "introduction", "literature_review",
                          "methodology", "results", "discussion", "conclusion" }

\* an assembly has returned, one of its loops having ended early
C20_Witness ==
    /\ call.branch = "generate" /\ Returned
    /\ Len(call.runs) = 7
    /\ \E i \in DOMAIN call.runs :
         call.runs[i].section = "results" /\ call.runs[i].status = "error"

\* the fields of the required set a collected_info lacks or holds empty
MissingFields(collected_info) ==
    { f \in Range(required_fields) :
        f \notin DOMAIN collected_info \/ collected_info[f] = "" }

\* the place of a field in the required set
RequiredPosition(f) == CHOOSE i \in DOMAIN required_fields : required_fields[i] = f

\* C19: the Completeness Checker is a pure function of collected_info:
\* missing_info is exactly the required fields that are absent or falsy,
\* in required-set order; is_complete holds iff missing_info is empty;
\* completeness_rate = (6 - |missing_info|) / 6; nothing else changes and no
\* backend is called.
C19_CompletenessChecker ==
    (op.name = "check_information_completeness" /\ op.ran)
       => LET r == op.result
              n == Len(r.missing_info)
          IN  /\ Range(r.missing_info) = MissingFields(op.args)
              /\ n = Cardinality(MissingFields(op.args))
              /\ \A i, j \in 1 .. n :
                   i < j => RequiredPosition(r.missing_info[i])
                              < RequiredPosition(r.missing_info[j])
              /\ r.is_complete <=> (n = 0)
              /\ r.completeness_rate = << 6 - n, 6 >>
              /\ failures = 0
              /\ session = NoSession

\* the checker has run on a dict holding a filled field, an empty one and
\* lacking a third
C19_Witness ==
    /\ op.name = "check_information_completeness" /\ op.ran
    /\ "research_topic" \in DOMAIN op.args /\ op.args["research_topic"] = "text"
    /\ "research_method" \in DOMAIN op.args /\ op.args["research_method"] = ""
    /\ "data_source" \notin DOMAIN op.args
    /\ op.result.missing_info = << "research_method", "data_source" >>

\* a text is a JSON object with members: flat, or one key holding an object
RECURSIVE IsJsonObject(_)
IsJsonObject(text) ==
    \/ text = << "{", "m", "}" >>
    \/ /\ Len(text) >= 6
       /\ text[1] = "{" /\ text[2] = "k" /\ text[Len(text)] = "}"
       /\ IsJsonObject(SubSeq(text, 3, Len(text) - 1))

\* some part of the text is such an object
ContainsJsonObject(text) ==
    \E i, j \in DOMAIN text : i <= j /\ IsJsonObject(SubSeq(text, i, j))

\* the extractor has been called, with these arguments and this result
Extracted == op.name = "extract_information" /\ op.ran

Fallback == UserSupplement :> op.args.user_input

OpensBlock(text, p) ==
    /\ text[p] = "{"
    /\ p + 1 \in DOMAIN text /\ text[p + 1] # "}"
    /\ \E q \in DOMAIN text : q > p /\ text[q] = "}"

\* the first block of the text is a flat JSON object
FirstBlockIsFlatObject(text) ==
    \E p \in DOMAIN text :
       /\ OpensBlock(text, p)
       /\ \A b \in 1 .. (p - 1) : ~OpensBlock(text, b)
       /\ p + 2 \in DOMAIN text
       /\ text[p + 1] = "m" /\ text[p + 2] = "}"

Dispatched == op.name = "dispatch" /\ op.ran

\* C15: for N >= 1 registered backends, role i in the fixed order collector,
\* generator, reviewer, optimizer maps to backends[i mod N] (all four to the
\* single backend when N = 1), so the mapping is total over the four roles;
\* for N = 0 the mapping is empty and every role dispatch fails.
C15_RoundRobin ==
    engine.constructed
       => LET N == Len(engine.services)
              mapping == engine.role_service_mapping
              order == << "information_collector", "content_generator",
                          "quality_reviewer", "structure_optimizer" >>
          IN  /\ N >= 1 =>
                   /\ DOMAIN mapping = Range(order)
                   /\ \A i \in 0 .. 3 :
                        mapping[order[i + 1]] = engine.services[(i % N) + 1]
              /\ N = 0 => DOMAIN mapping = {}
              /\ Dispatched =>
                   IF N = 0
                   THEN /\ op.result.outcome = "raised"
                        /\ op.result.error = NoServiceError
                   ELSE /\ op.result.service = mapping[op.args.role]
                        /\ op.args.ok => op.result.outcome = "returned"

\* the reviewer's call went to the third of five backends, and the
\* optimizer's call wrapped around to the first of three
C15_Witness ==
    /\ engine.constructed
    /\ Dispatched
    /\ \/ /\ Len(engine.services) = 5
          /\ op.args.role = "quality_reviewer"
          /\ op.result.service = engine.services[3]
       \/ /\ Len(engine.services) = 3
          /\ op.args.role = "structure_optimizer"
          /\ op.result.service = engine.services[1]

\* C16 (as stated): when the role/backend configuration is absent at
\* startup, the role-to-backend mapping is empty and every subsequent role
\* dispatch fails with a backend-unavailable error, for any set of
\* registered backends.
C16_MissingConfigAsStated ==
    (engine.constructed /\ ~engine.config_present)
       => /\ DOMAIN engine.role_service_mapping = {}
          /\ Dispatched => op.result.outcome = "raised"

\* C16 (amended): when the role configuration is absent at startup the role
\* settings are empty (each role runs on its built-in defaults) and the
\* role-to-backend mapping is the same round-robin assignment over the
\* registered backends; it is empty, and every role dispatch fails with a
\* backend-unavailable error, exactly when no backend is registered.
C16_MissingConfig ==
    (engine.constructed /\ ~engine.config_present)
       => LET N == Len(engine.services)
          IN  /\ DOMAIN engine.role_config = {}
              /\ (DOMAIN engine.role_service_mapping = {}) <=> (N = 0)
              /\ \A i \in DOMAIN ModelRoles :
                   N >= 1 => engine.role_service_mapping[ModelRoles[i]]
                               = engine.services[((i - 1) % N) + 1]
              /\ Dispatched =>
                   /\ (N = 0) => (op.result.outcome = "raised"
                                   /\ op.result.error = NoServiceError)
                   /\ (N >= 1 /\ op.args.ok) => op.result.outcome = "returned"

\* without a configuration a role call was served by a registered backend
C16_Witness ==
    /\ engine.constructed /\ ~engine.config_present
    /\ Len(engine.services) >= 2
    /\ Dispatched
    /\ op.result.outcome = "returned"
    /\ op.result.service = engine.services[2]

\* C21: regenerate_section(session, s) changes only paper_content[s]: the
\* text of every other section, current_stage, collected_info, session
\* status and the transcript are left unchanged, and the stage controller is
\* never invoked.
C21_RegenerateFrame ==
    [][ op'.name = "regenerate_section"
          => /\ session'.messages = session.messages
             /\ session'.current_stage = session.current_stage
             /\ session'.collected_info = session.collected_info
             /\ session'.status = session.status
             /\ session'.generation_process = session.generation_process
             /\ DOMAIN session'.paper_content
                   \subseteq DOMAIN session.paper_content \cup { op'.section }
             /\ \A k \in DOMAIN session.paper_content \ { op'.section } :
                  /\ k \in DOMAIN session'.paper_content
                  /\ session'.paper_content[k] = session.paper_content[k]
             /\ call' = call
             /\ response' = response ]_vars

\* a section of a completed paper has been regenerated to another text
C21_Witness ==
    /\ op.name = "regenerate_section" /\ op.outcome = "returned"
    /\ session.current_stage = "completed"
    /\ DOMAIN session.paper_content = Range(sections)
    /\ session.paper_content[op.section] = op.value
    /\ \E k \in Range(sections) : session.paper_content[k] # op.value

IsPrefix(a, b) == Len(a) <= Len(b) /\ SubSeq(b, 1, Len(a)) = a

\* C25: the transcript of a session is append-only: every operation (user
\* turn, generation, regeneration, context update, status update) leaves
\* the already-appended messages unchanged and in the same order, and new
\* messages are only added at the end.
C25_TranscriptAppendOnly ==
    [][ op'.name # "delete_session"
          => IsPrefix(session.messages, session'.messages) ]_vars

\* a generated session's transcript, looked at after a regeneration
C25_Witness ==
    /\ op.name = "regenerate_section" /\ op.outcome = "returned"
    /\ session.status = "completed"
    /\ Len(session.messages) >= 6
    /\ session.messages[1].role = "system"
    /\ session.messages[Len(session.messages)].content = CompletionMessage

\* C26: paper_content is populated only after generation has started: after
\* any sequence of start, user-turn, regenerate and export operations, a
\* session whose context holds a paper_content mapping has current_stage
\* generating or completed.
C26_PaperOnlyAfterGeneration ==
    session.has_paper_content
       => session.current_stage \in { "generating", "completed" }

\* the order the export is to follow
C22_FixedOrder ==
    << "abstract", "introduction", "literature_review", "methodology",
       "results", "discussion", "conclusion" >>

\* the heading lines of either format, and the section each announces
HeadingLines(format) ==
    IF format = "text"
    THEN { << TextHeading(text_sections_order[i][2]), text_sections_order[i][1] >> :
             i \in DOMAIN text_sections_order }
    ELSE { << MarkdownHeading(markdown_sections_order[i][2]),
              markdown_sections_order[i][1] >> :
             i \in DOMAIN markdown_sections_order }

IsHeading(line, format) == \E h \in HeadingLines(format) : h[1] = line

SectionOf(line, format) == (CHOOSE h \in HeadingLines(format) : h[1] = line)[2]

\* the sections a document announces, in the order of their headings
RECURSIVE EmittedSections(_, _)
EmittedSections(doc, format) ==
    IF doc = << >> THEN << >>
    ELSE (IF IsHeading(Head(doc), format)
             THEN << SectionOf(Head(doc), format) >> ELSE << >>)
         \o EmittedSections(Tail(doc), format)

\* the members of a sequence that are in a set, in the sequence's order
RECURSIVE Restrict(_, _)
Restrict(seq, set) ==
    IF seq = << >> THEN << >>
    ELSE (IF Head(seq) \in set THEN << Head(seq) >> ELSE << >>)
         \o Restrict(Tail(seq), set)

\* the text of a section follows its heading in the document
TextFollowsHeading(doc, format, paper_content) ==
    \A i \in DOMAIN doc :
       IsHeading(doc[i], format)
          => LET j == IF format = "text" THEN i + 2 ELSE i + 1
             IN  j <= Len(doc) /\ doc[j] = paper_content[SectionOf(doc[i], format)]

\* C22: export emits the sections present in paper_content in the fixed
\* order abstract, introduction, literature_review, methodology, results,
\* discussion, conclusion, each at most once; a section absent from the
\* mapping is skipped without error and does not change the relative order
\* of the others.
C22_ExportOrder ==
    op.name = "export_paper"
       => \A n \in DOMAIN op.results :
            LET doc == op.results[n]
                paper_content == op.args.paper_content
            IN  IF ~op.args.has_paper_content \/ paper_content = EmptyMap
                THEN doc = << >>
                ELSE /\ EmittedSections(doc, op.args.format)
                          = Restrict(C22_FixedOrder, DOMAIN paper_content)
                     /\ TextFollowsHeading(doc, op.args.format, paper_content)

\* a paper with sections missing in the middle and an unknown key, exported
C22_Witness ==
    /\ op.name = "export_paper"
    /\ Len(op.results) >= 1
    /\ op.args.format = "text"
    /\ DOMAIN op.args.paper_content
          = { "introduction", "literature_review", "discussion", "references" }
    /\ EmittedSections(op.results[1], "text")
          = << "introduction", "literature_review", "discussion" >>

\* C23: exporting the same paper_content mapping twice in the same format,
\* with no mutation of the session between the two calls, yields identical
\* output, whenever the two calls happen.
C23_ExportIdempotent ==
    op.name = "export_paper"
       => \A m, n \in DOMAIN op.results : op.results[m] = op.results[n]

\* C24: every create_session call yields a session identifier different
\* from all identifiers created before, so creating a session never
\* replaces or resets an existing session's record, for any user_id and any
\* timing of the two creations.
C24_FreshIdentifier ==
    [][ \A user_id \in UserIds :
          CreateSession(user_id)
             => /\ session_id(user_id, now) \notin DOMAIN store
                /\ \A id \in DOMAIN store : store'[id] = store[id] ]_vars

\* C27: a user turn or regeneration on one session leaves the messages,
\* context and status of every other session unchanged, under any
\* interleaving of operations on different sessions.
C27_SessionsIndependent ==
    [][ \A id \in StoreIds :
          StoreWrite(id)
             => \A other \in DOMAIN store \ { id } :
                  /\ other \in DOMAIN store'
                  /\ store'[other] = store[other] ]_vars

\* two sessions: one has received every kind of write, the other none
C27_Witness ==
    /\ Cardinality(DOMAIN store) = 2
    /\ \E a, b \in DOMAIN store :
          /\ a # b
          /\ Len(store[a].messages) = 1 /\ store[a].status = "completed"
          /\ store[a].has_paper_content
          /\ store[b] = create_session

\* the backend calls of a sequence of runs of the loop
RECURSIVE TotalCalls(_)
TotalCalls(runs) ==
    IF runs = << >> THEN 0 ELSE Len(Head(runs).calls) + TotalCalls(Tail(runs))

\* the runs of the generation in progress follow the section list, each
\* issues its calls in order, no call twice, at most 1 + 3k of them
SequentialCalls ==
    /\ Len(call.runs) <= Len(sections)
    /\ \A i \in DOMAIN call.runs :
         LET run == call.runs[i]
         IN  /\ run.section = sections[i]
             /\ Len(run.calls) <= 1 + 3 * run.iterations
             /\ \A j \in DOMAIN run.calls : run.calls[j].n = j
    /\ TotalCalls(call.runs) <= 28
    /\ call.pc = "generate_full_paper" => Len(call.runs) = call.section_index - 1

\* C28: a full-paper generation issues backend calls one at a time in
\* section order, at most 1 + 3k per section (28 in total for 7 sections
\* with k = 1), never re-issues a call that failed, and always terminates
\* once each issued call has returned or failed.
C28_GenerationSequentialAndTerminates ==
    /\ []SequentialCalls
    /\ (call.pc = "generate_full_paper") ~> (call.pc = "idle")

\* a generation that has returned after 28 calls, one of which failed
C28_Witness ==
    /\ call.pc = "idle"
    /\ session.status = "completed"
    /\ Len(call.runs) = Len(sections)
    /\ TotalCalls(call.runs) = 28
    /\ \E i \in DOMAIN call.runs :
          \E j \in DOMAIN call.runs[i].calls : ~call.runs[i].calls[j].ok

\* C29 as stated: invoked without an explicit iteration count, the loop runs
\* one refinement iteration: at most 4 role calls, and a trace of exactly 4
\* entries when no call fails.
C29_DefaultOneIteration ==
    (op.name = "collaborative_generation" /\ op.ran)
       => /\ Len(op.result.calls) <= 4
          /\ (\A j \in DOMAIN op.result.calls : op.result.calls[j].ok)
                => Len(op.result.iterations) = 4

\* C29: invoked without an explicit iteration count, the loop runs two
\* refinement iterations: at most 7 role calls, and a trace of exactly 7
\* entries when no call fails.
C29_DefaultTwoIterations ==
    (op.name = "collaborative_generation" /\ op.ran)
       => /\ Len(op.result.calls) <= 7
          /\ (\A j \in DOMAIN op.result.calls : op.result.calls[j].ok)
                => /\ Len(op.result.calls) = 7
                   /\ Len(op.result.iterations) = 7
                   /\ op.result.iterations[7].iteration = 2
                   /\ op.result.status = "success"

\* the loop has run on its default with no call failing
C29_Witness ==
    /\ op.name = "collaborative_generation" /\ op.ran
    /\ \A n \in DOMAIN op.args.outs : op.args.outs[n]
    /\ Len(op.result.iterations) = 7

\* the last n members of a sequence, all of them when it has fewer
LastOf(seq, n) ==
    IF Len(seq) <= n THEN seq ELSE SubSeq(seq, Len(seq) - n + 1, Len(seq))

\* C30: on a collection-branch turn with round r, the persisted
\* current_stage becomes stage_flow[min(r, len(stage_flow) - 1)], the
\* collector role is called once with at most the last 6 transcript messages
\* as history, exactly one assistant message is appended, and the response
\* is {stage = that stage, message, round = r + 1, status = collecting}.
C30_CollectionTurn ==
    [][ CollectionTurnStep
          => LET n == Len(session.messages)
                 r == call'.current_round
                 last == Len(stage_flow) - 1
                 stage == stage_flow[(IF r < last THEN r ELSE last) + 1]
                 transcript == SubSeq(session'.messages, 1, n + 1)
             IN  /\ r = (n + 1) \div 2
                 /\ session'.current_stage = stage
                 /\ Len(call'.collector_calls) = 1
                 /\ Len(call'.collector_calls[1].conversation_history) <= 6
                 /\ call'.collector_calls[1].conversation_history
                       = LastOf(transcript, 6)
                 /\ Len(session'.messages) = n + 2
                 /\ SubSeq(session'.messages, 1, n) = session.messages
                 /\ session'.messages[n + 1].role = "user"
                 /\ session'.messages[n + 2]
                       = Message("assistant", response'.message)
                 /\ response'.stage = stage
                 /\ response'.round = r + 1
                 /\ response'.status = "collecting"
                 /\ call'.pc = "idle" ]_vars

\* a collection turn on a transcript longer than six messages has returned
C30_Witness ==
    /\ call.pc = "idle" /\ call.branch = "collect"
    /\ call.current_round = 3
    /\ Len(session.messages) = 8
    /\ session.current_stage = stage_flow[4]
    /\ Len(call.collector_calls) = 1
    /\ Len(call.collector_calls[1].conversation_history) = 6
    /\ call.collector_calls[1].conversation_history[1] # session.messages[1]
    /\ response.round = 4

\* a user turn has just taken the generation branch
GeneratingTurnStarts ==
    /\ UserTurns(session') = UserTurns(session) + 1
    /\ call'.branch = "generate"

\* the generation in progress has just returned
GeneratingTurnReturns == call.pc = "generate_full_paper" /\ call'.pc = "idle"

\* C31: a generating turn performs its steps in this order: current_stage
\* becomes generating; the transition notice is appended; the paper is
\* assembled synchronously; paper_content is stored together with
\* current_stage completed; the session status becomes completed; the
\* completion notice is appended; the response carries the full
\* paper_content with status completed.  current_stage is never completed
\* before paper_content is stored.
C31_GeneratingTurnOrder ==
    /\ [][ GeneratingTurnStarts
             => LET n == Len(session.messages)
                IN  /\ call'.pc = "generate_full_paper"
                    /\ call'.section_index = 1 /\ call'.paper_content = EmptyMap
                    /\ session'.current_stage = "generating"
                    /\ Len(session'.messages) = n + 2
                    /\ session'.messages[n + 1].role = "user"
                    /\ session'.messages[n + 2] = Message("assistant", Notification)
                    /\ session'.paper_content = session.paper_content
                    /\ session'.has_paper_content = session.has_paper_content
                    /\ session'.status = session.status
                    /\ response' = response ]_vars
    /\ [][ (call.pc = "generate_full_paper" /\ call'.pc = "generate_full_paper")
             => /\ call'.section_index = call.section_index + 1
                /\ DOMAIN call'.paper_content
                      = { sections[i] : i \in 1 .. call.section_index }
                /\ session'.messages = session.messages
                /\ session'.current_stage = "generating"
                /\ session'.paper_content = session.paper_content
                /\ session'.status = session.status
                /\ response' = response ]_vars
    /\ [][ GeneratingTurnReturns
             => LET n == Len(session.messages)
                IN  /\ call.section_index = Len(sections) + 1
                    /\ DOMAIN call.paper_content = Range(sections)
                    /\ session'.has_paper_content
                    /\ session'.paper_content = call.paper_content
                    /\ session'.current_stage = "completed"
                    /\ session'.status = "completed"
                    /\ session'.messages
                          = Append(session.messages,
                                   Message("assistant", CompletionMessage))
                    /\ response'.stage = "completed"
                    /\ response'.status = "completed"
                    /\ response'.message = CompletionMessage
                    /\ response'.paper_content = call.paper_content ]_vars
    /\ [](session.current_stage = "completed" => session.has_paper_content)

\* a generating turn has returned with the assembled paper stored
C31_Witness ==
    /\ call.pc = "idle" /\ call.branch = "generate"
    /\ Len(call.runs) = Len(sections)
    /\ session.current_stage = "completed" /\ session.status = "completed"
    /\ session.paper_content = call.paper_content
    /\ response.status = "completed"
    /\ op = NoOp

\* the content current at the start of iteration i of a run that did not fail
ContentAtStart(r, i) == r.iterations[3 * (i - 1) + 1].content

\* C33: a collaborative_generation run with k iterations in which no
\* backend call fails returns status success and a trace of exactly 1 + 3k
\* entries: initial_generation (iteration 0), then for each i in 1..k
\* quality_review, structure_optimization, improved_generation in that
\* order; the reviewer and the optimizer of iteration i both receive the
\* content current at the start of iteration i, and final_content equals the
\* last improved_generation entry (the initial content when k = 0).
C33_SuccessfulRunTrace ==
    (gen.ran /\ \A n \in DOMAIN gen.outs : gen.outs[n])
       => LET r == gen.result
              k == gen.iterations
          IN  /\ r.status = "success"
              /\ Len(r.iterations) = 1 + 3 * k
              /\ Len(r.calls) = 1 + 3 * k
              /\ r.iterations[1].iteration = 0
              /\ r.iterations[1].type = "initial_generation"
              /\ \A i \in 1 .. k :
                   /\ r.iterations[3 * i - 1].iteration = i
                   /\ r.iterations[3 * i - 1].type = "quality_review"
                   /\ r.iterations[3 * i].iteration = i
                   /\ r.iterations[3 * i].type = "structure_optimization"
                   /\ r.iterations[3 * i + 1].iteration = i
                   /\ r.iterations[3 * i + 1].type = "improved_generation"
                   /\ r.calls[3 * i - 1].role = "quality_reviewer"
                   /\ r.calls[3 * i - 1].input = ContentAtStart(r, i)
                   /\ r.calls[3 * i].role = "structure_optimizer"
                   /\ r.calls[3 * i].input = ContentAtStart(r, i)
              /\ r.final_content = r.iterations[1 + 3 * k].content

\* a run of three iterations in which every call returned
C33_Witness ==
    /\ gen.ran /\ gen.iterations = 3
    /\ \A n \in DOMAIN gen.outs : gen.outs[n]
    /\ Len(gen.result.iterations) = 10
    /\ gen.result.final_content = Reply(10)

\* the required fields absent or empty in a mapping, in required-set order
OrderedMissing(collected_info) ==
    SelectSeq(required_fields, LAMBDA f : f \in MissingFields(collected_info))

\* the names of a sequence of fields, one after the other
RECURSIVE Named(_)
Named(fields) ==
    IF fields = << >> THEN ""
    ELSE Head(fields) \o (IF Len(fields) = 1 THEN "" ELSE ", ") \o Named(Tail(fields))

Threads == { 1, 2 }

\* the statements of process_user_input on the collection branch, one
\* manager call at a time
TurnStep(t) ==
    /\ op.name = "concurrent_turns"
    /\ LET me == op.threads[t]
           at(pc) == me.pc = pc
           goto(pc) == op' = [ op EXCEPT !.threads[t].pc = pc ]
       IN  \/ /\ at("add_user_message")
              /\ \E user_input \in UserInputs :
                   session' = add_message(session, "user", user_input)
              /\ goto("extract")
              /\ UNCHANGED << response, failures >>
           \/ /\ at("extract")
              /\ \E user_input \in UserInputs, resp \in ExtractionResponses :
                   LET extracted_info == extract_information(user_input, resp)
                       collected_info == DictUpdate(session.collected_info,
                                                    extracted_info)
                   IN  /\ failures + Fails(resp.returns) <= MaxFailures
                       /\ failures' = failures + Fails(resp.returns)
                       /\ session' = update_collected_info(session, collected_info)
              /\ goto("current_round")
              /\ UNCHANGED response
           \/ /\ at("current_round")
              /\ Branch(CurrentRound(session), session.collected_info) = "collect"
              /\ op' = [ op EXCEPT
                           !.threads[t].pc = "update_stage",
                           !.threads[t].current_round = CurrentRound(session) ]
              /\ UNCHANGED << session, response, failures >>
           \/ /\ at("update_stage")
              /\ session' = update_current_stage(session,
                                                 StageForRound(me.current_round))
              /\ goto("collect_information")
              /\ UNCHANGED << response, failures >>
           \/ /\ at("collect_information")
              /\ \E collector_ok \in BackendOutcomes :
                   LET response_message == collect_information(collector_ok)
                       next_stage == StageForRound(me.current_round)
                   IN  /\ failures + Fails(collector_ok) <= MaxFailures
                       /\ failures' = failures + Fails(collector_ok)
                       /\ session' = add_message(session, "assistant",
                                                 response_message)
                       /\ response' = [ session_id |-> SessionId,
                                        stage |-> next_stage,
                                        message |-> response_message,
                                        round |-> me.current_round + 1,
                                        status |-> "collecting" ]
              /\ goto("returned")
    /\ UNCHANGED << config, call, gen, engine, store, now >>

\* a session start_new_paper has created, and two requests for a turn on it:
\* each thread has entered process_user_input and found the session
InitRace ==
    /\ config = [ min_rounds |-> DefaultMinRounds, max_rounds |-> DefaultMaxRounds ]
    /\ session = add_message(add_message(create_session, "system", SystemRole),
                             "assistant", InitialMessage)
    /\ call = Idle
    /\ response = [ session_id |-> SessionId, stage |-> "initial",
                    message |-> InitialMessage, round |-> 1 ]
    /\ failures = 0
    /\ gen = NoRun
    /\ engine = MultiModelCollaborationEngine(<< Backends[1] >>, TRUE)
    /\ op = [ name |-> "concurrent_turns",
               threads |-> [ t \in Threads |->
                               [ pc |-> "add_user_message", current_round |-> 0 ] ] ]
    /\ store = NoStore
    /\ now = 0

NextRace == \E t \in Threads : TurnStep(t)

SpecRace == InitRace /\ [][NextRace]_vars

\* C36: the collecting_missing marker exists only in the response: the
\* missing-information branch leaves the persisted current_stage and the
\* session status unchanged, and in every reachable state the persisted
\* current_stage is one of the eight stage enumerants.
C36_MarkerOnlyInResponse ==
    /\ [][ (/\ UserTurns(session') = UserTurns(session) + 1
             /\ call'.branch = "missing")
              => /\ response'.stage = "collecting_missing"
                 /\ session'.current_stage = session.current_stage
                 /\ session'.status = session.status ]_vars
    /\ [](session.current_stage \in Range(PaperGenerationStage))

\* the fifth turn of a session has asked for missing fields, the stage of the
\* fourth turn still persisted
C36_Witness ==
    /\ call.pc = "idle" /\ call.branch = "missing"
    /\ response.stage = "collecting_missing"
    /\ session.current_stage = stage_flow[5]
    /\ session.status = "active"

C39_CallsReachAssignedBackend ==
    (/\ engine.constructed /\ Len(engine.services) >= 1
     /\ op.name = "call_from" /\ op.ran)
      => LET assigned == engine.role_service_mapping
             site == op.args.site
             service == op.result.service
         IN  /\ site = "collect_information"
                  => service = assigned["information_collector"]
             /\ site \in { "generate_content", "improved_generation" }
                  => service = assigned["content_generator"]
             /\ site = "review_quality" => service = assigned["quality_reviewer"]
             /\ site = "optimize_structure"
                  => service = assigned["structure_optimizer"]
             /\ site = "extract_information" => service = engine.services[1]

\* with three backends the improved-generation call went to the second one
C39_Witness ==
    /\ engine.constructed /\ Len(engine.services) = 3
    /\ op.name = "call_from" /\ op.ran
    /\ op.args.site = "improved_generation"
    /\ op.result.service = engine.services[2]

\* C40: when the start-paper request supplies pre-filled collected_info
\* without skipping the conversation, the session whose id is returned to the
\* caller holds that collected_info in its context, so the first user turn
\* merges into it rather than into an empty mapping.
C40_PrefilledInfoKept ==
    (/\ op.name = "start_paper"
     /\ op.args.collected_info # EmptyMap
     /\ ~op.args.skip_conversation)
      => store[op.data.session_id].collected_info = op.args.collected_info

\* a floor above the length of stage_flow, and sessions of more turns
MaxLateTurns == 6

InitFloor ==
    /\ config = [ min_rounds |-> Len(stage_flow), max_rounds |-> DefaultMaxRounds ]
    /\ session = NoSession
    /\ call = Idle
    /\ response = NoResponse
    /\ failures = 0
    /\ gen = NoRun
    /\ engine = MultiModelCollaborationEngine(<< Backends[1] >>, TRUE)
    /\ op = NoOp
    /\ store = NoStore
    /\ now = 0

NextFloor == StartNewPaper \/ ProcessUserInputUpTo(MaxLateTurns)

SpecFloor == InitFloor /\ [][NextFloor]_vars

\* the six stages information is collected in
CollectionStages == { stage_flow[i] : i \in 1 .. Len(stage_flow) - 1 }

\* C35: whenever process_user_input returns status collecting, the persisted
\* current_stage of the session is one of the six collection stages, never
\* generating or completed, for every configured min_rounds and max_rounds.
C35_CollectingInCollectionStage ==
    [][ (/\ UserTurns(session') = UserTurns(session) + 1
         /\ call'.pc = "idle"
         /\ response'.status = "collecting")
          => session'.current_stage \in CollectionStages ]_vars

\* C34: under two process_user_input calls interleaved on the same session,
\* the persisted current_stage index is still non-decreasing and the two
\* turns do not compute the same round number.
C34_InterleavedTurns ==
    /\ [][StageIndex(session'.current_stage) >= StageIndex(session.current_stage)]_vars
    /\ [](\A t, u \in Threads :
            (/\ op.threads[t].pc \in { "update_stage", "collect_information", "returned" }
             /\ op.threads[u].pc \in { "update_stage", "collect_information", "returned" }
             /\ t # u)
              => op.threads[t].current_round # op.threads[u].current_round)
====
